---- MODULE Spec2Model ----
(***************************************************************************)
(* Model of fetch_workouts_from_ryot.py: one pass of main() per run, over  *)
(* a GraphQL source (workout list, workout details, exercise details) and  *)
(* an InfluxDB destination (measurements "workouts" and "workout_summary").*)
(* Each external call of main() is one step; the answer of the remote side *)
(* (success, transport failure, GraphQL errors array, write failure) is    *)
(* chosen nondeterministically at the step that makes the call.            *)
(***************************************************************************)
EXTENDS Integers, Sequences, FiniteSets, TLC

\* ------------------------------------------------------------------ bounds
\* Longest workout identifier list the source answers with.
MaxSource == 2
\* Number of consecutive runs of the script against the same destination.
MaxRuns == 3
\* Number of calls, over all runs, that fail: a transport failure, an answer
\* with an errors array, a delete, query or write that raises.
MaxFaults == 1

\* --------------------------------------------------------------- constants
WORKOUT_MEASUREMENT == "workouts"
SUMMARY_MEASUREMENT == "workout_summary"

\* ------------------------------------------------------- generic helpers
Range(s) == {s[i] : i \in 1..Len(s)}

RECURSIVE FilterSeq(_, _)
\* [x for x in s if x not in drop]
FilterSeq(s, drop) ==
    IF s = <<>> THEN <<>>
    ELSE IF Head(s) \in drop THEN FilterSeq(Tail(s), drop)
         ELSE <<Head(s)>> \o FilterSeq(Tail(s), drop)

\* Duplicate-free sequences over S of length at most n.
RECURSIVE DistinctSeqs(_, _)
DistinctSeqs(S, n) ==
    IF n = 0 THEN {<<>>}
    ELSE LET shorter == DistinctSeqs(S, n - 1)
             longer == {Append(s, x) : s \in shorter, x \in S}
         IN shorter \cup
              {t \in longer : \A i, j \in 1..Len(t) : i # j => t[i] # t[j]}

\* ----------------------------------------------------------- JSON values
\* A JSON number n and the JSON null, as they arrive in a response body.
Num(n) == [t |-> "num", v |-> n]
Null == [t |-> "null"]

\* Python float(x): a number for a number, TypeError for None.
FloatOk(x) == x.t = "num"
Float(x) == x.v

\* dict.get(key, 1): a default of 1 in place of 0.
GetOrOne(d, key) == IF key \in DOMAIN d THEN d[key] ELSE Num(1)

\* dict.get(key, 0): the value under key, or 0 when the key is absent.
GetOrZero(d, key) == IF key \in DOMAIN d THEN d[key] ELSE Num(0)

\* ------------------------------------------------------ slugs (strings
\* are tuples of one-character strings)
Delim == <<"_","r","e","p","s","_","a","n","d","_","w","e","i","g","h","t","_","u","s","r","_">>
UpperCase == <<"A","B","C","D","E","F","G","H","I","J","K","L","M","N","O","P","Q","R","S","T","U","V","W","X","Y","Z">>
LowerCase == <<"a","b","c","d","e","f","g","h","i","j","k","l","m","n","o","p","q","r","s","t","u","v","w","x","y","z">>
Digits == <<"0","1","2","3","4","5","6","7","8","9">>
\* The characters the pattern [^a-zA-Z0-9_\s-] leaves in place.
SlugKeep == Range(UpperCase) \cup Range(LowerCase) \cup Range(Digits) \cup {"_", " ", "-"}

IsPrefixAt(s, i, p) ==
    /\ i + Len(p) - 1 <= Len(s)
    /\ \A k \in 1..Len(p) : s[i + k - 1] = p[k]

\* text.split(sep)[0]: the part before the first occurrence of sep.
SplitFirst(s, sep) ==
    LET hits == {i \in 1..Len(s) : IsPrefixAt(s, i, sep)}
    IN IF hits = {} THEN s
       ELSE SubSeq(s, 1, (CHOOSE i \in hits : \A j \in hits : i <= j) - 1)

RECURSIVE KeepChars(_, _)
KeepChars(s, keep) ==
    IF s = <<>> THEN <<>>
    ELSE IF Head(s) \in keep THEN <<Head(s)>> \o KeepChars(Tail(s), keep)
         ELSE KeepChars(Tail(s), keep)

RECURSIVE Strip(_)
Strip(s) ==
    IF s = <<>> THEN <<>>
    ELSE IF Head(s) = " " THEN Strip(Tail(s))
    ELSE IF s[Len(s)] = " " THEN Strip(SubSeq(s, 1, Len(s) - 1))
    ELSE s

LowerChar(c) ==
    IF c \in Range(UpperCase)
    THEN LowerCase[CHOOSE i \in 1..Len(UpperCase) : UpperCase[i] = c]
    ELSE c

\* re.sub(r'[^a-zA-Z0-9_\s-]', '', text).strip().lower().replace(" ", "_")
slugify(text) ==
    LET kept == Strip(KeepChars(text, SlugKeep))
    IN [i \in 1..Len(kept) |->
          IF LowerChar(kept[i]) = " " THEN "_" ELSE LowerChar(kept[i])]

parse_exercise_id(exercise_id) == slugify(SplitFirst(exercise_id, Delim))

\* ",".join(muscles)
RECURSIVE JoinComma(_)
JoinComma(labels) ==
    IF labels = <<>> THEN <<>>
    ELSE IF Len(labels) = 1 THEN <<labels[1]>>
    ELSE <<labels[1], ",">> \o JoinComma(Tail(labels))

\* ------------------------------------------------------------ the source
\* What the remote GraphQL API holds: three workouts, three exercises.
WorkoutIds == {"w1", "w2", "w3"}

BenchId == <<"B","e","n","c","h"," ","P","r","e","s","s","_","r","e","p","s","_","a","n","d","_","w","e","i","g","h","t","_","u","s","r","_","1">>
CurlId == <<" ","C","u","r","l","!","_","r","e","p","s","_","a","n","d","_","w","e","i","g","h","t","_","u","s","r","_","2">>
PlankId == <<"p","l","a","n","k">>

Stat(r, w) == [statistic |-> [reps |-> r, weight |-> w]]
StatNoReps(w) == [statistic |-> [weight |-> w]]
StatNoWeight(r) == [statistic |-> [reps |-> r]]

\* The "details" object of userWorkoutDetails in its well-formed shape.
GoodDetails(w) ==
    CASE w = "w1" ->
           [name |-> "Push", duration |-> Num(3600), startTime |-> "t1", endTime |-> "t2",
            information |-> [exercises |-> <<
                [id |-> BenchId, sets |-> <<Stat(Num(10), Num(100)), Stat(Num(8), Num(110))>>] >>]]
      [] w = "w2" ->
           [name |-> "Pull", duration |-> Num(1800), startTime |-> "t3", endTime |-> "t4",
            information |-> [exercises |-> <<
                [id |-> CurlId, sets |-> <<StatNoReps(Num(50)), StatNoWeight(Num(5))>>],
                [id |-> PlankId] >>]]
      [] OTHER ->
           [name |-> "Rest", duration |-> Num(60), startTime |-> "t5", endTime |-> "t6"]

\* Every shape the details object of workout w may arrive in: the well-formed
\* one, and shapes with a required field absent or a number replaced by null.
DetailVariants(w) ==
    {GoodDetails(w)} \cup
    CASE w = "w2" ->
           {[name |-> "Pull", duration |-> Num(1800), startTime |-> "t3", endTime |-> "t4",
             information |-> [exercises |-> <<
                [id |-> CurlId, sets |-> <<Stat(Num(3), Num(20)), Stat(Null, Num(5))>>] >>]]}
      [] w = "w3" ->
           {[name |-> "Rest", startTime |-> "t5", endTime |-> "t6"],
            [name |-> "Rest", duration |-> Num(60), startTime |-> "t5", endTime |-> "t6",
             information |-> [notes |-> "none"]]}
      [] OTHER -> {}

\* The muscles the source records for an exercise.
MusclesOf(exercise_id) ==
    CASE exercise_id = BenchId -> <<"chest", "triceps">>
      [] exercise_id = CurlId -> <<"biceps">>
      [] OTHER -> <<>>

\* ------------------------------------------------------- HTTP exchanges
\* Python None (also what a JSON null decodes to).
None == Null
GraphQLErrors == <<"boom">>

\* What requests.post / raise_for_status / json() end in: an exception, or a
\* decoded body. A body carries "data", "errors", or both.
TransportFailure == [ok |-> FALSE]
Answer(body) == [ok |-> TRUE, json |-> body]
Bodies(payload) ==
    { [data |-> payload],
      [data |-> payload, errors |-> GraphQLErrors],
      [data |-> Null, errors |-> GraphQLErrors],
      [errors |-> GraphQLErrors] }
Exchanges(payload) == {TransportFailure} \cup {Answer(b) : b \in Bodies(payload)}

ListExchanges(ids) ==
    Exchanges([userWorkoutsList |-> [response |-> [items |-> ids]]])
DetailExchanges(w) ==
    UNION {Exchanges([userWorkoutDetails |-> [details |-> d]]) : d \in DetailVariants(w)}
ExerciseExchanges(exercise_id) ==
    Exchanges([exerciseDetails |-> [muscles |-> MusclesOf(exercise_id)]])

CarriesErrors(x) == x.ok /\ "errors" \in DOMAIN x.json

\* The exchanges that do not fail: a body with data and no errors array.
NominalList(ids) == Answer([data |-> [userWorkoutsList |-> [response |-> [items |-> ids]]]])
NominalDetails(w) ==
    {Answer([data |-> [userWorkoutDetails |-> [details |-> d]]]) : d \in DetailVariants(w)}
NominalExercise(e) == Answer([data |-> [exerciseDetails |-> [muscles |-> MusclesOf(e)]]])

\* ------------------------------------------------------- Source Reader
\* The value fetch_graphql_data returns for an exchange: the decoded body
\* (errors array or not), or None after a RequestException.
fetch_graphql_data(x) == IF x.ok THEN x.json ELSE None

\* d.get(key) is truthy
Has(d, key) == d # None /\ key \in DOMAIN d /\ d[key] # None

get_workout_ids(x) ==
    LET data == fetch_graphql_data(x)
    IN IF Has(data, "data") /\ Has(data.data, "userWorkoutsList")
       THEN data.data.userWorkoutsList.response.items
       ELSE <<>>

get_workout_details(x) ==
    LET data == fetch_graphql_data(x)
    IN IF Has(data, "data") /\ Has(data.data, "userWorkoutDetails")
       THEN data.data.userWorkoutDetails
       ELSE None

get_exercise_details(x) ==
    LET data == fetch_graphql_data(x)
    IN IF Has(data, "data") /\ Has(data.data, "exerciseDetails")
       THEN data.data.exerciseDetails
       ELSE None

\* ---------------------------------------------------------------- state
VARIABLES
    run,                  \* number of runs of the script started so far
    pc,                   \* where main() stands
    reset,                \* args.reset of the run
    DRY_RUN,              \* the DRY_RUN setting of the run
    source_workout_ids,   \* main: source_workout_ids
    workouts_to_process,  \* main: workouts_to_process
    idx,                  \* position of the for loop in workouts_to_process
    workout_details,      \* main: workout_details of the workout in hand
    ex,                   \* position of the loop over its exercises
    muscles,              \* main: muscles of the exercise in hand
    si,                   \* position of the loop over its sets (enumerate's i + 1)
    dest,                 \* the points written to the bucket and not deleted since, in
                          \* write order (the store's merging of points of one series
                          \* and timestamp is not modelled)
    written,              \* the points this run wrote, in write order
    fetched,              \* the workout ids this run asked details for, in order
    deleted,              \* the measurements this run deleted, in order
    outcome,              \* how the run ended
    queryFailed,          \* the existing-ID query of this run raised
    detailErr,            \* the detail response of the workout in hand carried an errors array
    exErr,                \* the metadata response of the exercise in hand carried one
    faults,               \* calls that failed, so far
    skipped,              \* ids the loop skipped for want of details
    got,                  \* the exercises of each workout this run got details for
    prev,                 \* the previous run, as it ended
    remote                \* the workout ids the source holds, in list order

vars == <<run, pc, reset, DRY_RUN, source_workout_ids, workouts_to_process, idx,
          workout_details, ex, muscles, si, dest, written, fetched, deleted,
          outcome, queryFailed, detailErr, exErr, faults, skipped, got, prev, remote>>

loopVars == <<idx, workout_details, ex, muscles, si, detailErr, exErr>>
runArgs == <<run, reset, DRY_RUN, prev, remote>>

SourceLists == DistinctSeqs(WorkoutIds, MaxSource)

\* What a run leaves behind for the next: the bucket as the run left it and,
\* when the run was aborted inside the for loop, the workout it was at, whether
\* the run had written that workout's summary point, and the source list.
AbortedAt ==
    IF outcome = "aborted" /\ idx \in 1..Len(workouts_to_process)
    THEN workouts_to_process[idx] ELSE "none"
NoRun == [at |-> "none", source |-> <<>>, wrote |-> FALSE, dest |-> <<>>]
Snapshot ==
    [at |-> AbortedAt,
     source |-> IF AbortedAt = "none" THEN <<>> ELSE source_workout_ids,
     wrote |-> \E k \in 1..Len(written) :
                  /\ written[k].measurement = SUMMARY_MEASUREMENT
                  /\ written[k].tags.workout_id = AbortedAt,
     dest |-> dest]

\* A call may fail while the budget lasts.
Allowed(nominal) == nominal \/ faults < MaxFaults
Charge(nominal) == faults' = IF nominal THEN faults ELSE faults + 1

Init ==
    /\ run = 0
    /\ pc = "idle"
    /\ reset = FALSE
    /\ DRY_RUN = FALSE
    /\ source_workout_ids = <<>>
    /\ workouts_to_process = <<>>
    /\ idx = 0
    /\ workout_details = None
    /\ ex = 0
    /\ muscles = <<>>
    /\ si = 0
    /\ dest = <<>>
    /\ written = <<>>
    /\ fetched = <<>>
    /\ deleted = <<>>
    /\ outcome = "none"
    /\ queryFailed = FALSE
    /\ detailErr = FALSE
    /\ exErr = FALSE
    /\ faults = 0
    /\ skipped = {}
    /\ got = <<>>
    /\ prev = NoRun
    /\ remote \in SourceLists

\* ------------------------------------------------------------ destination
IsSummary(p) == p.measurement = SUMMARY_MEASUREMENT
IsSet(p) == p.measurement = WORKOUT_MEASUREMENT

\* A delete whose predicate matches no point.
DeleteNothing(points, m) == points

\* delete_api.delete(start, stop, '_measurement="m"'): the range covers every point.
DeleteMeasurement(points, m) == SelectSeq(points, LAMBDA p : p.measurement # m)

\* The existing ids read from the per-set measurement instead of the summaries.
get_existing_from_sets(points, ok) ==
    IF ok THEN {points[i].tags.workout_id : i \in {j \in 1..Len(points) : IsSet(points[j])}}
    ELSE {}

\* The workout_id tags of the summary points; the empty set when the query raises.
get_existing_workout_ids(points, ok) ==
    IF ok THEN {points[i].tags.workout_id : i \in {j \in 1..Len(points) : IsSummary(points[j])}}
    ELSE {}

\* A summary point tagged with the workout's name where its id belongs.
SummaryPointNameAsId(workout_id, d) ==
    [measurement |-> SUMMARY_MEASUREMENT,
     tags |-> [workout_id |-> d.name, workout_name |-> d.name],
     fields |-> [duration |-> Float(d.duration)],
     time |-> d.startTime]

SummaryPoint(workout_id, d) ==
    [measurement |-> SUMMARY_MEASUREMENT,
     tags |-> [workout_id |-> workout_id, workout_name |-> d.name],
     fields |-> [duration |-> Float(d.duration)],
     time |-> d.startTime]

SetTags(workout_id, d, exercise, ms) ==
    IF ms # <<>>
    THEN [workout_id |-> workout_id, workout_name |-> d.name,
          exercise_name |-> parse_exercise_id(exercise.id), muscles |-> JoinComma(ms)]
    ELSE [workout_id |-> workout_id, workout_name |-> d.name,
          exercise_name |-> parse_exercise_id(exercise.id)]

SetReps(s) == Float(GetOrZero(s.statistic, "reps"))
SetWeight(s) == Float(GetOrZero(s.statistic, "weight"))
SetVolume(s) == SetReps(s) * SetWeight(s)

\* A set point numbered with enumerate's i instead of i + 1.
SetPointZeroBased(workout_id, d, exercise, ms, i, s) ==
    [measurement |-> WORKOUT_MEASUREMENT,
     tags |-> SetTags(workout_id, d, exercise, ms),
     fields |-> [reps |-> SetReps(s), weight |-> SetWeight(s), volume |-> SetVolume(s),
                 set_number |-> i - 1, workout_duration |-> Float(d.duration)],
     time |-> d.endTime]

SetPoint(workout_id, d, exercise, ms, i, s) ==
    [measurement |-> WORKOUT_MEASUREMENT,
     tags |-> SetTags(workout_id, d, exercise, ms),
     fields |-> [reps |-> SetReps(s), weight |-> SetWeight(s), volume |-> SetVolume(s),
                 set_number |-> i, workout_duration |-> Float(d.duration)],
     time |-> d.endTime]

\* ------------------------------------------------------------ loop shape
HasExercises(d) == "information" \in DOMAIN d /\ "exercises" \in DOMAIN d.information
Exercises(d) == IF HasExercises(d) THEN d.information.exercises ELSE <<>>
Sets(exercise) == IF "sets" \in DOMAIN exercise THEN exercise.sets ELSE <<>>

\* The summary fields main() reads before it writes: name, duration (through
\* float), startTime, endTime. A KeyError or TypeError here leaves the loop.
SummaryFieldsOk(d) ==
    /\ {"name", "duration", "startTime", "endTime"} \subseteq DOMAIN d
    /\ FloatOk(d.duration)

SetFieldsOk(s) ==
    /\ FloatOk(GetOrZero(s.statistic, "reps"))
    /\ FloatOk(GetOrZero(s.statistic, "weight"))

\* The except clause of main(): the run ends where it stands.
Abort ==
    /\ pc' = "done"
    /\ outcome' = "aborted"

NextWorkout ==
    /\ pc' = "fetch"
    /\ idx' = idx + 1
    /\ workout_details' = None
    /\ ex' = 0
    /\ si' = 0
    /\ muscles' = <<>>
    /\ detailErr' = FALSE
    /\ exErr' = FALSE

\* The continue statement after a detail fetch that gave nothing; here as a
\* bug would have it, leaving the loop instead.
SkipEndsRun ==
    /\ Abort
    /\ UNCHANGED loopVars

\* The continue statement after a detail fetch that gave nothing.
Skip ==
    /\ NextWorkout
    /\ outcome' = outcome

\* Go on with exercise number e of the workout d in hand, or with the next workout.
GotoExercise(d, e) ==
    IF e <= Len(Exercises(d))
    THEN /\ pc' = "exercise"
         /\ idx' = idx
         /\ workout_details' = d
         /\ ex' = e
         /\ si' = 0
         /\ muscles' = <<>>
         /\ detailErr' = detailErr
         /\ exErr' = FALSE
    ELSE NextWorkout

\* --------------------------------------------------------------- main()
\* The script is started: argparse reads --reset, the environment gives DRY_RUN.
StartRun ==
    /\ pc \in {"idle", "done"}
    /\ run < MaxRuns
    /\ \E r \in BOOLEAN, d \in BOOLEAN :
          /\ reset' = r
          /\ DRY_RUN' = d
    /\ run' = run + 1
    /\ prev' = IF run = 0 THEN NoRun ELSE Snapshot
    /\ pc' = "list"
    /\ source_workout_ids' = <<>>
    /\ workouts_to_process' = <<>>
    /\ idx' = 0
    /\ workout_details' = None
    /\ ex' = 0
    /\ muscles' = <<>>
    /\ si' = 0
    /\ written' = <<>>
    /\ fetched' = <<>>
    /\ deleted' = <<>>
    /\ outcome' = "running"
    /\ queryFailed' = FALSE
    /\ detailErr' = FALSE
    /\ exErr' = FALSE
    /\ skipped' = {}
    /\ got' = <<>>
    /\ remote' \in {remote} \cup {l \in SourceLists : \E w \in WorkoutIds : l = <<w>> \o remote}
    /\ UNCHANGED <<dest, faults>>

\* The --reset branch tested before the DRY_RUN branch.
BranchResetFirst(dry, rst) ==
    IF rst THEN "clear_workouts" ELSE IF dry THEN "dry" ELSE "existing"

\* Where main() goes with a non-empty list: the DRY_RUN branch first, then
\* the --reset branch, else the incremental one.
Branch(dry, rst) ==
    IF dry THEN "dry" ELSE IF rst THEN "clear_workouts" ELSE "existing"

\* source_workout_ids = get_workout_ids(), the early return on an empty list,
\* and the branch on DRY_RUN and args.reset.
GetWorkoutIds ==
    /\ pc = "list"
    /\ \E x \in ListExchanges(remote) :
          /\ Allowed(x = NominalList(remote))
          /\ Charge(x = NominalList(remote))
          /\ source_workout_ids' = get_workout_ids(x)
          /\ IF get_workout_ids(x) = <<>>
             THEN /\ pc' = "done"
                  /\ outcome' = "no_ids"
             ELSE /\ pc' = Branch(DRY_RUN, reset)
                  /\ outcome' = outcome
    /\ UNCHANGED <<runArgs, workouts_to_process, loopVars, dest, written, fetched,
                   deleted, queryFailed, skipped, got>>

\* The DRY_RUN branch: one detail fetch for source_workout_ids[0], then return.
DryRun ==
    /\ pc = "dry"
    /\ \E x \in DetailExchanges(source_workout_ids[1]) :
          /\ Allowed(x \in NominalDetails(source_workout_ids[1]))
          /\ Charge(x \in NominalDetails(source_workout_ids[1]))
    /\ fetched' = Append(fetched, source_workout_ids[1])
    /\ pc' = "done"
    /\ outcome' = "dry_run"
    /\ UNCHANGED <<runArgs, source_workout_ids, workouts_to_process, loopVars, dest,
                   written, deleted, queryFailed, skipped, got>>

\* clear_influxdb_measurements, first delete (measurement "workouts").
ClearWorkouts ==
    /\ pc = "clear_workouts"
    /\ \E ok \in BOOLEAN :
          /\ Allowed(ok)
          /\ Charge(ok)
          /\ IF ok
             THEN /\ dest' = DeleteMeasurement(dest, WORKOUT_MEASUREMENT)
                  /\ deleted' = Append(deleted, WORKOUT_MEASUREMENT)
                  /\ pc' = "clear_summary"
                  /\ outcome' = outcome
             ELSE /\ Abort
                  /\ UNCHANGED <<dest, deleted>>
    /\ UNCHANGED <<runArgs, source_workout_ids, workouts_to_process, loopVars, written,
                   fetched, queryFailed, skipped, got>>

\* clear_influxdb_measurements, second delete (measurement "workout_summary"),
\* then workouts_to_process = source_workout_ids.
ClearSummary ==
    /\ pc = "clear_summary"
    /\ \E ok \in BOOLEAN :
          /\ Allowed(ok)
          /\ Charge(ok)
          /\ IF ok
             THEN /\ dest' = DeleteMeasurement(dest, SUMMARY_MEASUREMENT)
                  /\ deleted' = Append(deleted, SUMMARY_MEASUREMENT)
                  /\ workouts_to_process' = source_workout_ids
                  /\ pc' = "fetch"
                  /\ idx' = 1
                  /\ outcome' = outcome
             ELSE /\ Abort
                  /\ UNCHANGED <<dest, deleted, workouts_to_process, idx>>
    /\ UNCHANGED <<runArgs, source_workout_ids, workout_details, ex, muscles, si,
                   detailErr, exErr, written, fetched, queryFailed, skipped, got>>

\* The comprehension with its test inverted: the ids that are in existing.
ToProcessInverted(source, existing) == FilterSeq(source, Range(source) \ existing)

\* The list comprehension of main(): the source ids not in existing, in source order.
ToProcess(source, existing) == FilterSeq(source, existing)

\* The incremental branch with the query's exception left to reach the except
\* clause of main().
ReconcileUnguarded ==
    /\ pc = "existing"
    /\ \E ok \in BOOLEAN :
          LET todo == ToProcess(source_workout_ids, get_existing_workout_ids(dest, ok))
          IN /\ Allowed(ok)
             /\ Charge(ok)
             /\ queryFailed' = ~ok
             /\ IF ~ok
                THEN /\ Abort
                     /\ UNCHANGED <<workouts_to_process, idx>>
                ELSE /\ workouts_to_process' = todo
                     /\ IF todo = <<>>
                        THEN /\ pc' = "done"
                             /\ outcome' = "nothing_new"
                             /\ idx' = idx
                        ELSE /\ pc' = "fetch"
                             /\ outcome' = outcome
                             /\ idx' = 1
    /\ UNCHANGED <<runArgs, source_workout_ids, workout_details, ex, muscles, si,
                   detailErr, exErr, dest, written, fetched, deleted, skipped, got>>

\* The incremental branch: existing ids, the filter, the early return.
Reconcile ==
    /\ pc = "existing"
    /\ \E ok \in BOOLEAN :
          LET existing_workout_ids == get_existing_workout_ids(dest, ok)
              todo == ToProcess(source_workout_ids, existing_workout_ids)
          IN /\ Allowed(ok)
             /\ Charge(ok)
             /\ queryFailed' = ~ok
             /\ workouts_to_process' = todo
             /\ IF todo = <<>>
                THEN /\ pc' = "done"
                     /\ outcome' = "nothing_new"
                     /\ idx' = idx
                ELSE /\ pc' = "fetch"
                     /\ outcome' = outcome
                     /\ idx' = 1
    /\ UNCHANGED <<runArgs, source_workout_ids, workout_details, ex, muscles, si,
                   detailErr, exErr, dest, written, fetched, deleted, skipped, got>>

\* Top of the for loop: details = get_workout_details(workout_id), the skip
\* when there are none, and the reading of the summary fields.
FetchDetails ==
    /\ pc = "fetch"
    /\ idx <= Len(workouts_to_process)
    /\ LET workout_id == workouts_to_process[idx]
       IN \E x \in DetailExchanges(workout_id) :
            LET details == get_workout_details(x)
            IN /\ Allowed(x \in NominalDetails(workout_id))
               /\ Charge(x \in NominalDetails(workout_id))
               /\ fetched' = Append(fetched, workout_id)
               /\ IF details = None
                  THEN /\ skipped' = skipped \cup {workout_id}
                       /\ got' = got
                       /\ Skip
                  ELSE /\ skipped' = skipped
                       /\ got' = Append(got, [id |-> workout_id,
                                           exercises |-> Exercises(details.details)])
                       /\ workout_details' = details.details
                       /\ detailErr' = CarriesErrors(x)
                       /\ UNCHANGED <<idx, ex, muscles, si, exErr>>
                       /\ IF SummaryFieldsOk(details.details)
                          THEN /\ pc' = "summary"
                               /\ outcome' = outcome
                          ELSE Abort
    /\ UNCHANGED <<runArgs, source_workout_ids, workouts_to_process, dest, written,
                   deleted, queryFailed>>

\* write_api.write of the summary point; an exception of the client ends the run.
WriteSummary ==
    /\ pc = "summary"
    /\ \E ok \in BOOLEAN :
          /\ Allowed(ok)
          /\ Charge(ok)
          /\ IF ok
             THEN LET p == SummaryPoint(workouts_to_process[idx], workout_details)
                  IN /\ dest' = Append(dest, p)
                     /\ written' = Append(written, p)
                     /\ GotoExercise(workout_details, 1)
                     /\ outcome' = outcome
             ELSE /\ Abort
                  /\ UNCHANGED <<dest, written, loopVars>>
    /\ UNCHANGED <<runArgs, source_workout_ids, workouts_to_process, fetched, deleted,
                   queryFailed, skipped, got>>

\* Top of the loop over exercises: get_exercise_details and the muscles list.
FetchExercise ==
    /\ pc = "exercise"
    /\ LET exercise == Exercises(workout_details)[ex]
       IN \E x \in ExerciseExchanges(exercise.id) :
            LET exercise_details == get_exercise_details(x)
                ms == IF exercise_details # None /\ "muscles" \in DOMAIN exercise_details
                      THEN exercise_details.muscles ELSE <<>>
            IN /\ Allowed(x = NominalExercise(exercise.id))
               /\ Charge(x = NominalExercise(exercise.id))
               /\ IF Sets(exercise) # <<>>
                  THEN /\ pc' = "set"
                       /\ si' = 1
                       /\ muscles' = ms
                       /\ exErr' = CarriesErrors(x)
                       /\ UNCHANGED <<idx, workout_details, ex, detailErr>>
                  ELSE GotoExercise(workout_details, ex + 1)
    /\ UNCHANGED <<runArgs, source_workout_ids, workouts_to_process, dest, written,
                   fetched, deleted, outcome, queryFailed, skipped, got>>

\* Body of the loop over sets: the floats, the point, write_api.write.
WriteSet ==
    /\ pc = "set"
    /\ LET exercise == Exercises(workout_details)[ex]
           s == Sets(exercise)[si]
       IN \E ok \in BOOLEAN :
            /\ Allowed(ok)
            /\ Charge(ok)
            /\ IF SetFieldsOk(s) /\ ok
               THEN LET p == SetPoint(workouts_to_process[idx], workout_details,
                                      exercise, muscles, si, s)
                    IN /\ dest' = Append(dest, p)
                       /\ written' = Append(written, p)
                       /\ outcome' = outcome
                       /\ IF si < Len(Sets(exercise))
                          THEN /\ si' = si + 1
                               /\ pc' = "set"
                               /\ UNCHANGED <<idx, workout_details, ex, muscles,
                                              detailErr, exErr>>
                          ELSE GotoExercise(workout_details, ex + 1)
               ELSE /\ Abort
                    /\ UNCHANGED <<dest, written, loopVars>>
    /\ UNCHANGED <<runArgs, source_workout_ids, workouts_to_process, fetched, deleted,
                   queryFailed, skipped, got>>

\* The for loop is exhausted: the success message, the client is closed.
Finish ==
    /\ pc = "fetch"
    /\ idx > Len(workouts_to_process)
    /\ pc' = "done"
    /\ outcome' = "finished"
    /\ UNCHANGED <<runArgs, source_workout_ids, workouts_to_process, loopVars, dest,
                   written, fetched, deleted, queryFailed, skipped, got, faults>>

Next ==
    \/ StartRun
    \/ GetWorkoutIds
    \/ DryRun
    \/ ClearWorkouts
    \/ ClearSummary
    \/ Reconcile
    \/ FetchDetails
    \/ WriteSummary
    \/ FetchExercise
    \/ WriteSet
    \/ Finish

Spec == Init /\ [][Next]_vars

\* ============================================================== properties
IdOf(p) == p.tags.workout_id
SummariesOf(points, w) == SelectSeq(points, LAMBDA p : IsSummary(p) /\ IdOf(p) = w)
SetPointsOf(points, w) == SelectSeq(points, LAMBDA p : IsSet(p) /\ IdOf(p) = w)
SummaryIds(points) == {IdOf(points[k]) : k \in {j \in 1..Len(points) : IsSummary(points[j])}}
NoPointOf(points, w) == \A k \in 1..Len(points) : IdOf(points[k]) # w

InLoop == pc \in {"fetch", "summary", "exercise", "set"}
InWorkout == pc \in {"summary", "exercise", "set"}
\* The run is an incremental one and has its "to process" list.
Reconciled ==
    /\ run >= 1 /\ ~DRY_RUN /\ ~reset
    /\ InLoop \/ outcome \in {"finished", "aborted", "nothing_new"}
BothDeleted == deleted = <<WORKOUT_MEASUREMENT, SUMMARY_MEASUREMENT>>

\* The workouts of this run whose iteration of the for loop ran to its end
\* with details in hand.
Completed ==
    {g \in Range(got) :
        \E i \in 1..Len(workouts_to_process) : i < idx /\ workouts_to_process[i] = g.id}

\* The sets of a sequence of exercises in exercise-then-set order, each with its
\* 1-based position in its exercise.
SetRows(exercise) ==
    [i \in 1..Len(Sets(exercise)) |-> [pos |-> i, stat |-> Sets(exercise)[i].statistic]]
RECURSIVE Rows(_)
Rows(exs) == IF exs = <<>> THEN <<>> ELSE SetRows(Head(exs)) \o Rows(Tail(exs))

PositionIn(s, x) == CHOOSE i \in 1..Len(s) : s[i] = x
IsOrderedDifference(t, s, drop) ==
    /\ Range(t) = Range(s) \ drop
    /\ Len(t) = Cardinality(Range(t))
    /\ \A i, j \in 1..Len(t) : i < j => PositionIn(s, t[i]) < PositionIn(s, t[j])

\* C1: in an incremental run whose existing-ID query succeeded, "to process"
\* is the source list without the ids that had a summary point in the bucket
\* when the run began, each remaining id once and in source order.
C1_IncrementalDifference ==
    (Reconciled /\ ~queryFailed) =>
        IsOrderedDifference(workouts_to_process, source_workout_ids, SummaryIds(prev.dest))

C1_Witness ==
    /\ Reconciled /\ ~queryFailed
    /\ Len(source_workout_ids) = 2
    /\ Range(source_workout_ids) \cap SummaryIds(prev.dest) # {}
    /\ Len(workouts_to_process) = 1

\* C2: in a reset run no point is written before both measurements are
\* deleted; once they are, "to process" is the whole source list and the
\* bucket holds the points of this run and nothing older.
C2_ResetDeletesThenAll ==
    (run >= 1 /\ reset /\ ~DRY_RUN) =>
        /\ written # <<>> => BothDeleted
        /\ BothDeleted => workouts_to_process = source_workout_ids /\ dest = written

C2_Witness ==
    /\ reset /\ ~DRY_RUN /\ outcome = "finished"
    /\ Range(source_workout_ids) \cap SummaryIds(prev.dest) # {}
    /\ \E k \in 1..Len(prev.dest) : IsSet(prev.dest[k])
    /\ written # <<>>

\* C3: a workout whose iteration ran to its end has one summary point and one
\* set point per set of its details, in exercise-then-set order, numbered
\* 1, 2, ... within each exercise; workout w1 (one exercise, sets 10 x 100 and
\* 8 x 110) has set numbers 1, 2 and volumes 1000, 880.
C3_OneSummaryOnePointPerSet ==
    \A g \in Completed :
        LET pts == SetPointsOf(written, g.id)
            rows == Rows(g.exercises)
        IN /\ Len(SummariesOf(written, g.id)) = 1
           /\ Len(pts) = Len(rows)
           /\ \A k \in 1..Len(pts) : pts[k].fields.set_number = rows[k].pos
           /\ g.id = "w1" =>
                 /\ [k \in 1..Len(pts) |-> pts[k].fields.set_number] = <<1, 2>>
                 /\ [k \in 1..Len(pts) |-> pts[k].fields.volume] = <<1000, 880>>

C3_Witness ==
    /\ outcome = "finished"
    /\ \E g \in Completed : g.id = "w1" /\ Len(SetPointsOf(written, "w1")) = 2
    /\ \E g \in Completed : g.id = "w2"

\* C4: every set point a run has written carries the workout id of exactly
\* one summary point the same run has written.
C4_SetPointHasOneSummary ==
    \A k \in 1..Len(written) :
        IsSet(written[k]) => Len(SummariesOf(written, IdOf(written[k]))) = 1

C4_Witness ==
    /\ \E k \in 1..Len(written) : IsSet(written[k]) /\ IdOf(written[k]) = "w1"
    /\ \E k \in 1..Len(written) : IsSet(written[k]) /\ IdOf(written[k]) = "w2"

\* C5: a dry run, with or without --reset, writes nothing, deletes nothing,
\* leaves the bucket as it found it, and asks details once, for the first
\* source id.
C5_DryRunOneFetchNoWrite ==
    (run >= 1 /\ DRY_RUN) =>
        /\ written = <<>>
        /\ deleted = <<>>
        /\ dest = prev.dest
        /\ Len(fetched) <= 1
        /\ (pc = "done" /\ source_workout_ids # <<>>) => fetched = <<source_workout_ids[1]>>

C5_Witness ==
    /\ DRY_RUN /\ reset /\ pc = "done" /\ outcome = "dry_run"
    /\ Len(source_workout_ids) = 2
    /\ prev.dest # <<>>

\* C6: when the existing-ID query of an incremental run fails, the failure
\* does not end the run: "to process" is the whole source list, and a run that
\* finishes has asked details for every source workout.
C6_QueryFailureProcessesAll ==
    (Reconciled /\ queryFailed) =>
        /\ workouts_to_process = source_workout_ids
        /\ outcome # "nothing_new"
        /\ outcome = "aborted" => fetched # <<>>
        /\ outcome = "finished" => fetched = source_workout_ids

C6_Witness ==
    /\ Reconciled /\ queryFailed /\ outcome = "finished"
    /\ \E w \in Range(source_workout_ids) \cap SummaryIds(prev.dest) :
          Len(SummariesOf(dest, w)) = 2

\* C7: a response with an errors array counts as no data: no point is written
\* for a workout whose detail response carried one, and an exercise whose
\* metadata response carried one has no muscle labels.
C7_ErrorsArrayMeansNoData ==
    /\ (InWorkout /\ detailErr) => NoPointOf(written, workouts_to_process[idx])
    /\ (pc = "set" /\ exErr) => muscles = <<>>

\* C8: a workout whose detail fetch gave nothing has no point in the run, the
\* run does not end at it, details are asked for the workouts after it, and
\* in a run that finishes every workout that had details has its summary.
C8_SkipAndGoOn ==
    /\ \A w \in skipped : NoPointOf(written, w)
    /\ AbortedAt \notin skipped
    /\ InLoop =>
          fetched = SubSeq(workouts_to_process, 1, IF pc = "fetch" THEN idx - 1 ELSE idx)
    /\ outcome = "finished" =>
          /\ fetched = workouts_to_process
          /\ \A g \in Range(got) : Len(SummariesOf(written, g.id)) = 1

C8_Witness ==
    /\ outcome = "finished"
    /\ Len(workouts_to_process) = 2
    /\ workouts_to_process[1] \in skipped
    /\ Len(SummariesOf(written, workouts_to_process[2])) = 1

\* C9: every set point carries the reps and the weight of its set, 0 where the
\* statistic has no such key, and their product as volume; a set with a key
\* absent still gets its point; workout w2 (sets {weight 50} and {reps 5})
\* has reps 0, 5, weights 50, 0 and volumes 0, 0.
C9_AbsentDefaultsToZero ==
    \A g \in Range(got) :
        LET pts == SetPointsOf(written, g.id)
            rows == Rows(g.exercises)
            Given(st, key) == IF key \in DOMAIN st THEN st[key].v ELSE 0
        IN /\ Len(pts) <= Len(rows)
           /\ g \in Completed => Len(pts) = Len(rows)
           /\ \A k \in 1..Len(pts) :
                 /\ pts[k].fields.reps = Given(rows[k].stat, "reps")
                 /\ pts[k].fields.weight = Given(rows[k].stat, "weight")
                 /\ pts[k].fields.volume = pts[k].fields.reps * pts[k].fields.weight
           /\ (g \in Completed /\ g.exercises = Exercises(GoodDetails("w2"))) =>
                 [k \in 1..Len(pts) |->
                    <<pts[k].fields.reps, pts[k].fields.weight, pts[k].fields.volume>>]
                   = << <<0, 50, 0>>, <<5, 0, 0>> >>

C9_Witness ==
    \E g \in Completed :
        /\ g.exercises = Exercises(GoodDetails("w2"))
        /\ Len(SetPointsOf(written, "w2")) = 2

\* The second of two consecutive runs over the same source list, the first
\* aborted at a workout, the second incremental with the query answered.
Rerun ==
    /\ prev.at # "none"
    /\ prev.source = source_workout_ids
    /\ Reconciled /\ ~queryFailed

\* What C10 says of the rerun: a workout whose summary the first run did not
\* write is in "to process" and, unless the second run fails at it, gets its
\* points; one whose summary it wrote is left out, gets no point, and keeps
\* the set points it had; no workout has two summary points.
RerunOutcome ==
    /\ ~prev.wrote =>
          /\ \E i \in 1..Len(workouts_to_process) : workouts_to_process[i] = prev.at
          /\ \A g \in Completed :
                g.id = prev.at =>
                   /\ Len(SummariesOf(written, prev.at)) = 1
                   /\ Len(SetPointsOf(written, prev.at)) = Len(Rows(g.exercises))
    /\ prev.wrote =>
          /\ \A i \in 1..Len(workouts_to_process) : workouts_to_process[i] # prev.at
          /\ NoPointOf(written, prev.at)
          /\ SetPointsOf(dest, prev.at) = SetPointsOf(prev.dest, prev.at)
    /\ \A w \in WorkoutIds : Len(SummariesOf(dest, w)) <= 1

\* C10 as stated: for every first run aborted at a workout.
C10_RerunAsStated == Rerun => RerunOutcome

\* When the first run ended, the bucket held no workout's summary twice, and
\* held a summary of the workout the run was aborted at only if that run wrote it.
CleanBefore ==
    /\ \A w \in WorkoutIds : Len(SummariesOf(prev.dest, w)) <= 1
    /\ ~prev.wrote => prev.at \notin SummaryIds(prev.dest)

\* C10, amended: the same, for a first run that left no duplicate summary and
\* no older summary of the workout it was aborted at.
C10_RerunAfterCleanAbort == (Rerun /\ CleanBefore) => RerunOutcome

C10_Witness ==
    /\ Rerun /\ CleanBefore
    /\ prev.at = "w1" /\ prev.wrote
    /\ outcome = "finished"
    /\ Len(SetPointsOf(dest, "w1")) = 1
    /\ written # <<>>

====
